---- MODULE Spec2Model ----
(***************************************************************************)
(* Model of the repository-state engine of GITS/bin/git_python_gui.py:    *)
(* the porcelain status decoder and status cache                           *)
(* (update_file_status_cache_enhanced), the readers of the cache, the      *)
(* highlight expiry timer, and the refresh / worker-thread plumbing built  *)
(* on Tk's root.after queue.                                               *)
(*                                                                         *)
(* Strings of the program are sequences of one-character strings, so that  *)
(* slicing (line[:2], line[3:]), indexing (status_code[1]) and path        *)
(* joining behave as in Python.  Time is counted in seconds.               *)
(***************************************************************************)
EXTENDS Integers, Sequences, FiniteSets, TLC

\* ------------------------------------------------------------------ bounds

\* Longest status output (in lines) the environment produces in SpecBuild.
MaxLines == 3

\* Clock ticks in the highlight delay: the resolution of the model's clock.
TicksPerDelay == 2

\* Worker threads alive at the same time.
MaxThreads == 2

\* Callbacks workers may have waiting in the root.after queue.
MaxPosted == 2

\* Longest status output (in lines) of SpecFolders.
MaxEntries == 2

\* Commit dates run over 1..MaxTime.
MaxTime == 3

\* Most branches of a repository of SpecPalette.
MaxBranches == 7

\* Most branches, and most tags, of a repository of SpecTimeline.
MaxNamed == 4

\* ------------------------------------------------------- program constants

\* root.after(5000, self.clear_file_highlights), in milliseconds.
HighlightDelayMs == 5000

\* root.after(5000, refresh_cycle), in milliseconds.
RefreshPeriodMs == 5000

\* iter_commits(branch.name, max_count=30) in draw_commit_graph.
GraphMaxCount == 30

\* iter_commits(max_count=100) in draw_vertical_timeline.
TimelineMaxCount == 100

\* The layout of draw_commit_graph.
commit_width == 200
commit_height == 120
margin_x == 30
margin_y == 50

\* The layout of draw_vertical_timeline.
item_height == 120
margin == 30

\* A delay in clock ticks.
Ticks(ms) == (ms * TicksPerDelay) \div HighlightDelayMs

\* ------------------------------------------------------------ Python text

Min(a, b) == IF a < b THEN a ELSE b

\* s[:n]
Take(s, n) == SubSeq(s, 1, Min(n, Len(s)))

\* s[n:]
Drop(s, n) == SubSeq(s, n + 1, Len(s))

\* not s.strip(): the string is empty or all blanks
IsBlank(s) == \A i \in 1..Len(s) : s[i] = " "

\* s.startswith(p)
StartsWith(s, p) == Len(p) <= Len(s) /\ SubSeq(s, 1, Len(p)) = p

\* os.path.join(a, b) for a relative b
os_path_join(a, b) == a \o <<"/">> \o b

\* The alphabet of porcelain change codes.
Alphabet == {" ", "M", "A", "D", "R", "C", "U", "?", "!"}

\* self.repo_path
repo_path == <<"r">>

\* Relative paths of the files of the working tree; all lie in the root folder.
RelPaths == {<<"a">>, <<"b">>}

\* A porcelain line "<c0><c1> <path>".
Line(c0, c1, p) == <<c0, c1, " ">> \o p

\* ------------------------------------------------------- the status decoder

\* A chain that tested the worktree character before the index character.
StatusWorktreeFirst(status_code) ==
    IF status_code \in {<<"U", "U">>, <<"A", "A">>, <<"D", "D">>}
    THEN "CONFLICTED"
    ELSE IF Len(status_code) < 2 THEN "IndexError"
    ELSE IF status_code[2] \in {"M", "D"} THEN "MODIFIED"
    ELSE IF status_code[2] = "?" THEN "NEW"
    ELSE IF status_code[1] \in {"M", "A", "D", "R", "C"} THEN "STAGED"
    ELSE "NONE"

\* A chain whose tests for renames, copies and deletions came first.
StatusRenameFirst(status_code) ==
    IF status_code \in {<<"U", "U">>, <<"A", "A">>, <<"D", "D">>}
    THEN "CONFLICTED"
    ELSE IF Len(status_code) < 2 THEN "IndexError"
    ELSE IF status_code[1] = "R" THEN "RENAMED"
    ELSE IF status_code[1] = "C" THEN "COPIED"
    ELSE IF status_code[1] = "D" \/ status_code[2] = "D" THEN "DELETED"
    ELSE IF status_code[1] \in {"M", "A"}
         THEN IF status_code[2] = "M" THEN "MODIFIED_STAGED" ELSE "STAGED"
    ELSE IF status_code[2] = "M" THEN "MODIFIED"
    ELSE IF status_code[2] = "?" THEN "NEW"
    ELSE "NONE"

\* The if/elif chain of update_file_status_cache_enhanced on status_code =
\* line[:2].  "NONE": no branch assigns (the path gets no entry).
\* "IndexError": status_code[1] is read on a one-character string.
StatusOfCode(status_code) ==
    IF status_code = <<"U", "U">> THEN "CONFLICTED"
    ELSE IF status_code = <<"A", "A">> THEN "CONFLICTED"
    ELSE IF status_code = <<"D", "D">> THEN "CONFLICTED"
    ELSE IF Len(status_code) < 1 THEN "IndexError"
    ELSE IF status_code[1] \in {"M", "A", "D", "R", "C"}
         THEN IF Len(status_code) < 2 THEN "IndexError"
              ELSE IF status_code[2] \in {"M", "D"} THEN "MODIFIED_STAGED"
              ELSE "STAGED"
    ELSE IF Len(status_code) < 2 THEN "IndexError"
    ELSE IF status_code[2] \in {"M", "D"} THEN "MODIFIED"
    ELSE IF status_code[2] = "?" THEN "NEW"
    ELSE IF status_code[1] = "R" THEN "RENAMED"
    ELSE IF status_code[1] = "C" THEN "COPIED"
    ELSE IF status_code[1] = "D" \/ status_code[2] = "D" THEN "DELETED"
    ELSE "NONE"

\* {} : the empty dict
EmptyCache == [p \in {} |-> "CLEAN"]

\* cache[k] = v
DictPut(cache, k, v) ==
    [p \in (DOMAIN cache) \cup {k} |-> IF p = k THEN v ELSE cache[p]]

\* cache.get(k, 'CLEAN')
DictGet(cache, k) == IF k \in DOMAIN cache THEN cache[k] ELSE "CLEAN"

\* One iteration of the for loop over the lines: the cache after the line, and
\* whether the line raised.
LineStep(cache, line) ==
    IF IsBlank(line) THEN [cache |-> cache, raised |-> FALSE]
    ELSE LET status_code == Take(line, 2)
             file_path == Drop(line, 3)
             full_path == os_path_join(repo_path, file_path)
             st == StatusOfCode(status_code)
         IN  IF st = "IndexError" THEN [cache |-> cache, raised |-> TRUE]
             ELSE IF st = "NONE" THEN [cache |-> cache, raised |-> FALSE]
             ELSE [cache |-> DictPut(cache, full_path, st), raised |-> FALSE]

\* The for loop from line i on; an exception leaves the loop (the except
\* clause encloses the whole loop).
RECURSIVE LoopFrom(_, _, _)
LoopFrom(lines, i, cache) ==
    IF i > Len(lines) THEN [cache |-> cache, raised |-> FALSE]
    ELSE LET r == LineStep(cache, lines[i])
         IN  IF r.raised THEN r ELSE LoopFrom(lines, i + 1, r.cache)

\* A build that patched the installed dict would start from it.
BuildPatchesOld(old) == old

\* The dict the build starts from: self.file_status_cache = {}.
BuildStart(old) == EmptyCache

\* update_file_status_cache_enhanced with the cache `old` installed: the new
\* cache and the new status label (unchanged unless the except clause ran).
\* query_raises: repo.git.status('--porcelain') raised.
BuildCache(old, lines, query_raises, label) ==
    IF query_raises
    THEN [cache |-> BuildStart(old), label |-> "Error updating status"]
    ELSE LET r == LoopFrom(lines, 1, BuildStart(old))
         IN  [cache |-> r.cache,
              label |-> IF r.raised THEN "Error updating status" ELSE label]

\* ------------------------------------------------------------- the readers

\* The scan of get_folder_status / get_folder_git_status over the cache.
has_status(cache, folder_path, statuses) ==
    \E p \in DOMAIN cache : StartsWith(p, folder_path) /\ cache[p] \in statuses

\* get_folder_git_status
get_folder_git_status(cache, folder_path) ==
    IF has_status(cache, folder_path, {"STAGED", "MODIFIED_STAGED"}) THEN "STAGED"
    ELSE IF has_status(cache, folder_path, {"MODIFIED"}) THEN "MODIFIED"
    ELSE IF has_status(cache, folder_path, {"NEW"}) THEN "NEW"
    ELSE "CLEAN"

\* get_folder_status: the folder icon shown in the repository tree, named by
\* its colour.
get_folder_status(cache, folder_path) ==
    IF has_status(cache, folder_path, {"STAGED", "MODIFIED_STAGED"}) THEN "green"
    ELSE IF has_status(cache, folder_path, {"MODIFIED"}) THEN "orange"
    ELSE IF has_status(cache, folder_path, {"NEW"}) THEN "red"
    ELSE "plain"

\* get_file_icon for a file: the status indicator appended to the type icon.
get_file_icon(file_status) ==
    CASE file_status = "NEW" -> "red"
      [] file_status = "MODIFIED" -> "orange"
      [] file_status = "STAGED" -> "green"
      [] file_status = "MODIFIED_STAGED" -> "blue"
      [] OTHER -> "none"

\* The row tag populate_file_list_enhanced gives a file of that status.
TagOfStatus(file_status) ==
    CASE file_status = "NEW" -> "new_file"
      [] file_status = "MODIFIED" -> "modified_file"
      [] file_status = "STAGED" -> "staged_file"
      [] file_status = "MODIFIED_STAGED" -> "modified_staged_file"
      [] file_status = "DELETED" -> "deleted_file"
      [] file_status = "RENAMED" -> "renamed_file"
      [] file_status = "COPIED" -> "copied_file"
      [] file_status = "CONFLICTED" -> "conflicted_file"
      [] OTHER -> "clean_file"

\* The folders of the working tree: the root, s, s/d, o and sx, a sibling of
\* s whose name begins with the same character.
Folders ==
    {repo_path,
     <<"r", "/", "s">>, <<"r", "/", "s", "/", "d">>,
     <<"r", "/", "s", "x">>, <<"r", "/", "o">>}

\* os.path.isdir(item_path)
IsDir(item_path) == item_path \in Folders

\* sorted(os.listdir(folder_path)): the root holds the files of RelPaths and
\* the folders o, s and sx; every other folder holds a file f, and s the
\* folder d besides.
ListDir(folder_path) ==
    IF folder_path = repo_path
    THEN << <<"a">>, <<"b">>, <<"o">>, <<"s">>, <<"s", "x">> >>
    ELSE IF folder_path = <<"r", "/", "s">> THEN << <<"d">>, <<"f">> >>
    ELSE IF folder_path \in Folders THEN << <<"f">> >>
    ELSE << >>

\* The row tag populate_file_list_enhanced gives a folder of that status.
FolderTag(folder_status) ==
    CASE folder_status = "MODIFIED" -> "modified_folder"
      [] folder_status = "NEW" -> "new_folder"
      [] folder_status = "STAGED" -> "staged_folder"
      [] OTHER -> "clean_folder"

\* The rows populate_file_list_enhanced inserts, and the paths it adds to
\* highlighted_files.
RECURSIVE FileRows(_, _, _, _)
FileRows(cache, folder_path, items, i) ==
    IF i > Len(items) THEN << >>
    ELSE LET item_path == os_path_join(folder_path, items[i])
             file_status == DictGet(cache, item_path)
         IN  << IF IsDir(item_path)
                THEN [name |-> items[i],
                      tag |-> FolderTag(get_folder_git_status(cache, item_path)),
                      icon |-> get_folder_status(cache, item_path)]
                ELSE [name |-> items[i], tag |-> TagOfStatus(file_status),
                      icon |-> get_file_icon(file_status)] >>
             \o FileRows(cache, folder_path, items, i + 1)

HighlightedBy(cache, folder_path) ==
    {os_path_join(folder_path, ListDir(folder_path)[i]) : i \in
        {j \in 1..Len(ListDir(folder_path)) :
            /\ ~IsDir(os_path_join(folder_path, ListDir(folder_path)[j]))
            /\ DictGet(cache, os_path_join(folder_path, ListDir(folder_path)[j]))
                   # "CLEAN"}}

\* get_status_text
get_status_text(code) ==
    CASE code = "M" -> "Modified"
      [] code = "A" -> "Added"
      [] code = "D" -> "Deleted"
      [] code = "R" -> "Renamed"
      [] code = "C" -> "Copied"
      [] code = "?" -> "Untracked"
      [] code = "!" -> "Ignored"
      [] OTHER -> "Unknown"

\* The loop of populate_changes from line i on: the rows of the staging tree
\* and of the modified tree, and whether a line raised.
RECURSIVE ChangesFrom(_, _, _, _)
ChangesFrom(lines, i, staging, modified) ==
    IF i > Len(lines)
    THEN [staging |-> staging, modified |-> modified, raised |-> FALSE]
    ELSE IF IsBlank(lines[i]) THEN ChangesFrom(lines, i + 1, staging, modified)
    ELSE LET status_code == Take(lines[i], 2)
             file_path == Drop(lines[i], 3)
             staged == status_code[1] \in {"M", "A", "D", "R", "C"}
             staging1 == IF staged
                         THEN Append(staging, [path |-> file_path,
                                  text |-> get_status_text(status_code[1])])
                         ELSE staging
         IN  IF Len(status_code) < 2
             THEN [staging |-> staging1, modified |-> modified, raised |-> TRUE]
             ELSE ChangesFrom(lines, i + 1, staging1,
                      IF status_code[2] \in {"M", "D", "?", "!"}
                      THEN Append(modified, [path |-> file_path,
                               text |-> get_status_text(status_code[2])])
                      ELSE modified)

\* populate_changes: both trees are emptied, then filled from a status query
\* of its own.
populate_changes(lines, query_raises) ==
    IF query_raises
    THEN [staging |-> << >>, modified |-> << >>, raised |-> TRUE]
    ELSE ChangesFrom(lines, 1, << >>, << >>)

ConflictCodes ==
    {<<"U", "U">>, <<"A", "A">>, <<"D", "D">>, <<"A", "U">>, <<"U", "A">>,
     <<"D", "U">>, <<"U", "D">>}

\* check_merge_status and update_merge_navbar_status: what the merge
\* indicator shows.  in_merge: .git/MERGE_HEAD exists.
MergeIndicator(lines, in_merge, query_raises) ==
    LET conflicted ==
            {i \in 1..Len(lines) :
                ~IsBlank(lines[i]) /\ Take(lines[i], 2) \in ConflictCodes}
    IN  IF query_raises THEN "hidden"
        ELSE IF conflicted # {} THEN "conflicts"
        ELSE IF in_merge THEN "merge"
        ELSE "hidden"

\* ------------------------------------------------------------------- state

VARIABLES
    status_output,      \* what `git status --porcelain` prints now, as lines
    file_status_cache,  \* self.file_status_cache
    snap_current,       \* history: the cache was built from a status query
                        \* that succeeded, and the worktree has not changed
                        \* since
    status_label,       \* the text of self.status_label
    merge_indicator,    \* what the merge indicator bar shows
    repo_tree,          \* the icon of the root item of self.repo_tree
    tree_selection,     \* self.repo_tree.selection(): a folder path or ()
    file_tree,          \* the rows of self.file_tree
    highlighted_files,  \* self.highlighted_files
    populated_age,      \* history: ticks since paths were last added to it
    after_queue,        \* Tk's timer queue: the pending root.after callbacks;
                        \* self.highlight_timer is the id of the entry marked
                        \* `held`, or of a callback no longer pending
    threads,            \* the worker threads
    buttons,            \* the toolbar buttons: text and state
    commit_dialog,      \* the commit-message prompt of the Commit button is open
    repo_commits,       \* the commits of the repository: hexsha -> date, parent
    repo_branches,      \* self.repo.branches: name and tip of each, in order
    repo_head,          \* the branch HEAD points to ("" in an empty repository)
    repo_tags,          \* self.repo.tags: the tags, each with its commit
    graph_canvas,       \* what draw_commit_graph left on the graph canvas
    timeline_canvas     \* what draw_vertical_timeline left on its canvas

\* The repository's history and the two canvases that show it.
graph_vars ==
    <<repo_commits, repo_branches, repo_head, repo_tags, graph_canvas,
      timeline_canvas>>

vars ==
    <<status_output, file_status_cache, snap_current, status_label,
      merge_indicator, repo_tree, tree_selection, file_tree, highlighted_files,
      populated_age, after_queue, threads, buttons, commit_dialog,
      repo_commits, repo_branches, repo_head, repo_tags, graph_canvas,
      timeline_canvas>>

\* self.repo is set: a repository was opened at construction.
repo_loaded == TRUE

\* os.path.exists('.git/MERGE_HEAD'): no merge is in progress.
in_merge == FALSE

\* --------------------------------------------------- the root.after queue

\* root.after(ms, cb): Tk keeps the queue ordered by due time, and callbacks
\* due at the same time in the order they were registered.  held: the id is
\* stored in self.highlight_timer.  fresh (history): no refresh has rebuilt
\* the cache since this callback was registered.
root_after(queue, ms, cb, arg, held) ==
    LET e == [cb |-> cb, rem |-> Ticks(ms), arg |-> arg, held |-> held,
              fresh |-> TRUE]
        k == Cardinality({i \in 1..Len(queue) : queue[i].rem <= e.rem})
    IN  SubSeq(queue, 1, k) \o <<e>> \o SubSeq(queue, k + 1, Len(queue))

\* A scheduler that armed the new timer without cancelling the pending one.
CancelNothing(queue) == queue

\* root.after_cancel(self.highlight_timer): no effect when that callback
\* already ran.
root_after_cancel(queue) ==
    LET F[i \in 0..Len(queue)] ==
            IF i = 0 THEN << >>
            ELSE IF queue[i].held THEN F[i - 1] ELSE Append(F[i - 1], queue[i])
    IN  F[Len(queue)]

\* The callback the event loop runs next, if it is due.
HeadDue(cb) ==
    /\ after_queue # << >>
    /\ after_queue[1].cb = cb
    /\ after_queue[1].rem = 0

\* schedule_highlight_clear on the queue `queue`: the new queue.
\* (hasattr(self, 'highlight_timer') holds from construction on.)
schedule_highlight_clear(queue) ==
    root_after(root_after_cancel(queue), HighlightDelayMs,
               "clear_file_highlights", "", TRUE)

\* History: a rebuild of the cache has run, so the refreshes still waiting
\* in the queue were requested before it.
Superseded(queue) ==
    [i \in 1..Len(queue) |->
        IF queue[i].cb \in {"refresh_all", "refresh_all_data"}
        THEN [queue[i] EXCEPT !.fresh = FALSE]
        ELSE queue[i]]

\* ------------------------------------------------------- the environment

\* Every two-character code of the alphabet, on one line.
DecodeOutputs ==
    {<<Line(c0, c1, p)>> : <<c0, c1, p>> \in Alphabet \X Alphabet \X RelPaths}

\* The lines of the status outputs of SpecBuild: well-formed lines of three
\* codes, a line cut short after its first character, and a blank line.
BuildLines ==
    {Line(c[1], c[2], p) :
        <<c, p>> \in {<<" ", "M">>, <<"A", " ">>, <<"!", "!">>} \X RelPaths}
    \cup {<<"M">>, << >>}

\* The sequences over S of length 0..n.
RECURSIVE SeqsUpTo(_, _)
SeqsUpTo(S, n) ==
    IF n = 0 THEN {<< >>}
    ELSE LET shorter == SeqsUpTo(S, n - 1)
         IN  shorter \cup {Append(q, x) : <<q, x>> \in shorter \X S}

\* git prints a path once.
NoDupPaths(lines) ==
    \A i, j \in 1..Len(lines) :
        (i < j /\ Len(lines[i]) > 3 /\ Len(lines[j]) > 3)
            => Drop(lines[i], 3) # Drop(lines[j], 3)

BuildOutputs == {q \in SeqsUpTo(BuildLines, MaxLines) : NoDupPaths(q)}

\* The lines of the status outputs of SpecFolders: a file in each folder
\* below the root, with a code of each status.
FolderLines ==
    {Line(c[1], c[2], p) :
        <<c, p>> \in {<<"A", " ">>, <<" ", "M">>, <<"?", "?">>, <<"M", "M">>,
                      <<"U", "U">>}
                  \X {<<"s", "/", "f">>, <<"s", "/", "d", "/", "f">>,
                      <<"s", "x", "/", "f">>, <<"o", "/", "f">>}}

FolderOutputs == {q \in SeqsUpTo(FolderLines, MaxEntries) : NoDupPaths(q)}

\* The status outputs of the specifications about timers and threads.
SmallOutputs ==
    {<< >>,
     <<Line(" ", "M", <<"a">>)>>,
     <<Line("A", " ", <<"a">>)>>,
     <<Line("U", "U", <<"a">>)>>,
     <<Line("A", " ", <<"a">>), Line("?", "?", <<"b">>)>>}

\* One line is added, removed or replaced.
OneEdit(old, new) ==
    \/ /\ Len(new) = Len(old) + 1
       /\ \E k \in 1..Len(new) :
              old = SubSeq(new, 1, k - 1) \o SubSeq(new, k + 1, Len(new))
    \/ /\ Len(old) = Len(new) + 1
       /\ \E k \in 1..Len(old) :
              new = SubSeq(old, 1, k - 1) \o SubSeq(old, k + 1, Len(old))
    \/ /\ Len(old) = Len(new)
       /\ Cardinality({k \in 1..Len(old) : old[k] # new[k]}) = 1

\* Files are edited, staged or committed outside the program.
WorktreeChange(S) ==
    /\ status_output' \in {o \in S : OneEdit(status_output, o)}
    /\ snap_current' = FALSE
    /\ UNCHANGED <<file_status_cache, status_label, merge_indicator,
                   repo_tree, tree_selection, file_tree, highlighted_files,
                   populated_age, after_queue, threads, buttons,
                   commit_dialog>>
    /\ UNCHANGED graph_vars

\* Time passes: every pending callback comes one tick closer.
Tick ==
    /\ after_queue' =
           [i \in 1..Len(after_queue) |->
               [after_queue[i] EXCEPT
                   !.rem = IF @ > 0 THEN @ - 1 ELSE 0]]
    /\ populated_age' = Min(populated_age + 1, Ticks(HighlightDelayMs))
    /\ UNCHANGED <<status_output, file_status_cache, snap_current,
                   status_label, merge_indicator, repo_tree, tree_selection,
                   file_tree, highlighted_files, threads, buttons,
                   commit_dialog>>
    /\ UNCHANGED graph_vars

\* ------------------------------------------------ the repository's history

\* The commits of the repository, by hexsha.
Hashes == {"c1", "c2", "c3"}

\* The histories a repository can have: c1 is the root commit, c2 its child,
\* c3 a child of either; every commit has a date of its own choosing.
CommitMaps ==
    {f \in [Hashes -> [time : 1..MaxTime, parent : Hashes \cup {"none"}]] :
        /\ f["c1"].parent = "none"
        /\ f["c2"].parent = "c1"
        /\ f["c3"].parent \in {"c1", "c2"}}

\* self.repo.branches: none (a repository without commits), main, or dev and
\* main, each with a commit as its tip.
BranchLists ==
    {<< >>}
    \cup {<<[name |-> "main", tip |-> h]>> : h \in Hashes}
    \cup {<<[name |-> "dev", tip |-> h[1]], [name |-> "main", tip |-> h[2]]>> :
              h \in Hashes \X Hashes}

\* The commits a branch of the list reaches.
Reached(commits, branches) ==
    LET tips == {branches[i].tip : i \in 1..Len(branches)}
        RECURSIVE Up(_)
        Up(h) == IF h = "none" THEN {} ELSE {h} \cup Up(commits[h].parent)
    IN  UNION {Up(h) : h \in tips}

\* The repositories: commits, branches, and the branch HEAD is on.  HEAD is
\* on one of the branches, if there is one; a commit that no branch reaches
\* is no part of the repository, and is given the date 1 and the parent c1.
Repos ==
    {r \in CommitMaps \X BranchLists \X {"", "dev", "main"} :
        /\ IF r[2] = << >> THEN r[3] = ""
           ELSE \E i \in 1..Len(r[2]) : r[2][i].name = r[3]
        /\ \A h \in Hashes \ Reached(r[1], r[2]) :
               /\ r[1][h].time = 1
               /\ h = "c3" => r[1][h].parent = "c1"}

\* The names of the branches of a repository of many branches, in the order
\* of self.repo.branches.
ManyNames == <<"b1", "b2", "b3", "b4", "b5", "b6", "b7", "b8", "b9">>

\* The list of the first n of these branches: the last of them at the last
\* commit, the others at the first.
ManyBranchLists(n) ==
    {[k \in 1..n |->
         [name |-> ManyNames[k], tip |-> IF k < n THEN "c1" ELSE "c3"]]}

\* A repository with one branch and three commits of increasing date.
PlainRepo ==
    <<[h \in Hashes |->
          CASE h = "c1" -> [time |-> 1, parent |-> "none"]
            [] h = "c2" -> [time |-> 2, parent |-> "c1"]
            [] h = "c3" -> [time |-> 3, parent |-> "c2"]],
      <<[name |-> "main", tip |-> "c3"]>>,
      "main">>

\* The repositories of up to MaxBranches branches on the commits of
\* PlainRepo, HEAD on the first branch.
ManyBranchRepos ==
    {<<PlainRepo[1], b, IF b = << >> THEN "" ELSE b[1].name>> :
        b \in UNION {ManyBranchLists(n) : n \in 0..MaxBranches}}

\* The names of the tags, in the order of self.repo.tags.
TagNames == <<"t1", "t2", "t3", "t4", "t5", "t6">>

\* self.repo.tags of m tags: the last of them on the last commit, the others
\* on the first.
TagList(m) ==
    [k \in 1..m |->
        [name |-> TagNames[k], commit |-> IF k < m THEN "c1" ELSE "c3"]]

\* The repositories of up to MaxNamed branches and up to MaxNamed tags on the
\* commits of PlainRepo, HEAD on the last branch.
TimelineRepos ==
    {<<PlainRepo[1], b, b[Len(b)].name, TagList(m)>> :
        <<b, m>> \in (UNION {ManyBranchLists(n) : n \in 1..MaxNamed})
                      \X (0..MaxNamed)}

\* git's listing of the history of a commit: the commit, then its ancestors.
RECURSIVE Ancestry(_, _)
Ancestry(commits, h) ==
    IF h = "none" THEN << >>
    ELSE <<h>> \o Ancestry(commits, commits[h].parent)

\* list(self.repo.iter_commits(rev, max_count=n))
iter_commits(commits, tip, max_count) == Take(Ancestry(commits, tip), max_count)

\* A merge that made a new entry at every sighting of a commit.
AddEveryCommit(all_commits, branch_name, commits, i) ==
    all_commits \o [k \in 1..Len(commits) |->
                       [hexsha |-> commits[k], branches |-> <<branch_name>>]]

\* The loop over the commits of one branch in draw_commit_graph: all_commits
\* (a dict, its entries in insertion order) after the commits from i on.
RECURSIVE AddCommits(_, _, _, _)
AddCommits(all_commits, branch_name, commits, i) ==
    IF i > Len(commits) THEN all_commits
    ELSE LET seen == {k \in 1..Len(all_commits) :
                         all_commits[k].hexsha = commits[i]}
         IN  AddCommits(
                 IF seen = {}
                 THEN Append(all_commits,
                             [hexsha |-> commits[i], branches |-> <<branch_name>>])
                 ELSE [k \in 1..Len(all_commits) |->
                          IF k \in seen
                          THEN [all_commits[k] EXCEPT
                                   !.branches = Append(@, branch_name)]
                          ELSE all_commits[k]],
                 branch_name, commits, i + 1)

\* A loop over the branches that the first failing branch ended.
RECURSIVE CollectUntilFailure(_, _, _, _, _)
CollectUntilFailure(commits, branches, failing, i, all_commits) ==
    IF i > Len(branches) \/ branches[i].name \in failing THEN all_commits
    ELSE CollectUntilFailure(commits, branches, failing, i + 1,
             AddCommits(all_commits, branches[i].name,
                 iter_commits(commits, branches[i].tip, GraphMaxCount), 1))

\* The loop over self.repo.branches from branch i on; failing: the branches
\* whose iter_commits raises, which the bare except skips.
RECURSIVE CollectFrom(_, _, _, _, _)
CollectFrom(commits, branches, failing, i, all_commits) ==
    IF i > Len(branches) THEN all_commits
    ELSE CollectFrom(commits, branches, failing, i + 1,
             IF branches[i].name \in failing THEN all_commits
             ELSE AddCommits(all_commits, branches[i].name,
                      iter_commits(commits, branches[i].tip, GraphMaxCount), 1))

\* sorted(all_commits.values(), key=committed_datetime, reverse=True): the
\* sort is stable, so entries of equal date keep their order.
RECURSIVE SortedFrom(_, _, _, _)
SortedFrom(commits, entries, i, sorted) ==
    IF i > Len(entries) THEN sorted
    ELSE LET k == Cardinality({j \in 1..Len(sorted) :
                     commits[sorted[j].hexsha].time
                         >= commits[entries[i].hexsha].time})
         IN  SortedFrom(commits, entries, i + 1,
                 SubSeq(sorted, 1, k) \o <<entries[i]>>
                     \o SubSeq(sorted, k + 1, Len(sorted)))

\* A layout that drew every commit in the first slot.
GraphNodesStacked(commits, sorted_commits) ==
    [i \in 1..Len(sorted_commits) |->
        [hexsha |-> sorted_commits[i].hexsha,
         time |-> commits[sorted_commits[i].hexsha].time,
         branches |-> sorted_commits[i].branches,
         rect_x |-> margin_x,
         rect_y |-> margin_y,
         x |-> margin_x + commit_width \div 2,
         y |-> margin_y + commit_height \div 2]]

\* The drawing loop of draw_commit_graph: the rectangle of commit i is drawn
\* at (rect_x, rect_y), and the entry's x and y are set to its centre.
GraphNodes(commits, sorted_commits) ==
    [i \in 1..Len(sorted_commits) |->
        LET x == (i - 1) * (commit_width + margin_x) + margin_x
            y == margin_y
        IN  [hexsha |-> sorted_commits[i].hexsha,
             time |-> commits[sorted_commits[i].hexsha].time,
             branches |-> sorted_commits[i].branches,
             rect_x |-> x,
             rect_y |-> y,
             x |-> x + commit_width \div 2,
             y |-> y + commit_height \div 2]]

\* A canvas with nothing but a text on it.
Undrawn(outcome, failing) ==
    [outcome |-> outcome, nodes |-> << >>, failed |-> failing,
     branch_colors |-> << >>, fills |-> << >>, chain |-> << >>,
     lines |-> << >>, heads |-> << >>]

\* A drawing loop that drew a connection line after its last commit too.
ChainAfterEvery(nodes) ==
    [i \in 1..Len(nodes) |->
        [x1 |-> nodes[i].rect_x + commit_width,
         x2 |-> nodes[i].rect_x + commit_width + margin_x,
         y |-> nodes[i].rect_y + commit_height \div 2]]

\* The connection lines of the drawing loop: one after every commit but the
\* last, from the right edge of its rectangle over the margin.
ChainEdges(nodes) ==
    [i \in 1..(Len(nodes) - 1) |->
        [x1 |-> nodes[i].rect_x + commit_width,
         x2 |-> nodes[i].rect_x + commit_width + margin_x,
         y |-> nodes[i].rect_y + commit_height \div 2]]

\* draw_branch_lines for one branch: its commits sorted by date, newest first
\* (a stable sort), each with the x of its place j in sorted_commits.
BranchLine(commits, branch, sorted_commits) ==
    LET history == iter_commits(commits, branch.tip, GraphMaxCount)
        branch_commits_sorted ==
            SortedFrom(commits, [k \in 1..Len(history) |-> [hexsha |-> history[k]]],
                       1, << >>)
        found == {k \in 1..Len(branch_commits_sorted) :
                     \E j \in 1..Len(sorted_commits) :
                         sorted_commits[j].hexsha = branch_commits_sorted[k].hexsha}
    IN  [name |-> branch.name,
         dots |-> [k \in 1..Len(branch_commits_sorted) |->
                      IF k \notin found
                      THEN [hexsha |-> branch_commits_sorted[k].hexsha, x |-> -1]
                      ELSE LET j == CHOOSE j \in 1..Len(sorted_commits) :
                                        sorted_commits[j].hexsha
                                            = branch_commits_sorted[k].hexsha
                           IN  [hexsha |-> branch_commits_sorted[k].hexsha,
                                x |-> (j - 1) * (commit_width + margin_x)
                                          + margin_x + commit_width \div 2]]]

\* draw_branch_lines: one line for each branch of branch_commits, from branch
\* i on.
RECURSIVE BranchLines(_, _, _, _, _)
BranchLines(commits, branches, failing, sorted_commits, i) ==
    IF i > Len(branches) THEN << >>
    ELSE (IF branches[i].name \in failing THEN << >>
          ELSE <<BranchLine(commits, branches[i], sorted_commits)>>)
         \o BranchLines(commits, branches, failing, sorted_commits, i + 1)

\* self.repo.head.commit: the tip of the branch HEAD is on; "none" when
\* reading it raises (no such commit, or head_raises).
HeadCommit(branches, head, head_raises) ==
    LET at == {i \in 1..Len(branches) : branches[i].name = head}
    IN  IF head_raises \/ at = {} THEN "none"
        ELSE branches[CHOOSE i \in at : TRUE].tip

\* A marking that took every commit of the branch of HEAD for HEAD.
HeadMarksBranch(commits, sorted_commits, branches, head, head_raises) ==
    [i \in 1..Len(sorted_commits) |->
        \E k \in 1..Len(Ancestry(commits,
                                  HeadCommit(branches, head, head_raises))) :
            Ancestry(commits, HeadCommit(branches, head, head_raises))[k]
                = sorted_commits[i].hexsha]

\* The HEAD indicator of each commit of the drawing loop: commit ==
\* self.repo.head.commit, False when the comparison raises.
HeadMarks(commits, sorted_commits, branches, head, head_raises) ==
    [i \in 1..Len(sorted_commits) |->
        sorted_commits[i].hexsha = HeadCommit(branches, head, head_raises)]

\* The canvas before its window is opened.
BlankCanvas == Undrawn("closed", {})

\* list(branch_commits.keys()): the branches whose enumeration did not raise,
\* in the order of self.repo.branches, from branch i on.
RECURSIVE BranchCommitsKeys(_, _, _)
BranchCommitsKeys(branches, failing, i) ==
    IF i > Len(branches) THEN << >>
    ELSE (IF branches[i].name \in failing THEN << >>
          ELSE <<branches[i].name>>)
         \o BranchCommitsKeys(branches, failing, i + 1)

\* colors
colors ==
    <<"lightblue", "lightgreen", "lightcoral", "lightyellow", "lightpink",
      "lightgray">>

\* A palette that gave its last colour to every branch past its end.
ColorClamped(i) == colors[Min(i, Len(colors) - 1) + 1]

\* colors[i % len(colors)]
ColorAt(i) == colors[(i % Len(colors)) + 1]

\* branch_colors: the pairs of a branch name and its colour, in the order of
\* the keys.
BranchColors(keys) ==
    [k \in 1..Len(keys) |-> [name |-> keys[k], color |-> ColorAt(k - 1)]]

\* branch_colors.get(name, 'lightblue')
ColorOf(branch_colors, name) ==
    LET at == {k \in 1..Len(branch_colors) : branch_colors[k].name = name}
    IN  IF at = {} THEN "lightblue"
        ELSE branch_colors[CHOOSE k \in at : TRUE].color

\* fill_color of each commit of the drawing loop: the colour of its primary
\* branch, branches[0].
FillColors(sorted_commits, branch_colors) ==
    [i \in 1..Len(sorted_commits) |->
        LET branches == sorted_commits[i].branches
            primary_branch == IF branches # << >> THEN branches[1] ELSE "main"
        IN  ColorOf(branch_colors, primary_branch)]

\* draw_commit_graph: the canvas it leaves.  branches_raise: reading
\* self.repo.branches raised, so the outer except clause ran.  head_raises:
\* self.repo.head.commit raises.  failed (history): the branches whose
\* enumeration raised.
DrawnGraph(commits, branches, head, failing, branches_raise, head_raises) ==
    IF branches_raise
    THEN Undrawn("Error", {})
    ELSE LET all_commits == CollectFrom(commits, branches, failing, 1, << >>)
             sorted_commits == SortedFrom(commits, all_commits, 1, << >>)
             branch_colors ==
                 BranchColors(BranchCommitsKeys(branches, failing, 1))
         IN  IF all_commits = << >>
             THEN Undrawn("No commits found", failing)
             ELSE [outcome |-> "graph",
                   nodes |-> GraphNodes(commits, sorted_commits),
                   failed |-> failing,
                   branch_colors |-> branch_colors,
                   fills |-> FillColors(sorted_commits, branch_colors),
                   chain |-> ChainEdges(GraphNodes(commits, sorted_commits)),
                   lines |-> BranchLines(commits, branches, failing,
                                         sorted_commits, 1),
                   heads |-> HeadMarks(commits, sorted_commits, branches, head,
                                       head_raises)]

\* list(reversed(...))
Reversed(seq) == [i \in 1..Len(seq) |-> seq[Len(seq) + 1 - i]]

\* branch_info[hexsha]: the names of the branches whose history holds the
\* commit, in the order of self.repo.branches, from branch i on; a branch of
\* failing raises and is skipped.
RECURSIVE BranchInfo(_, _, _, _, _)
BranchInfo(commits, branches, failing, hexsha, i) ==
    IF i > Len(branches) THEN << >>
    ELSE (IF /\ branches[i].name \notin failing
             /\ \E k \in 1..Len(Ancestry(commits, branches[i].tip)) :
                    Ancestry(commits, branches[i].tip)[k] = hexsha
          THEN <<branches[i].name>>
          ELSE << >>)
         \o BranchInfo(commits, branches, failing, hexsha, i + 1)

\* tag_info[hexsha]: the names of the tags on the commit, in the order of
\* self.repo.tags, from tag i on.
RECURSIVE TagInfo(_, _, _)
TagInfo(tags, hexsha, i) ==
    IF i > Len(tags) THEN << >>
    ELSE (IF tags[i].commit = hexsha THEN <<tags[i].name>> ELSE << >>)
         \o TagInfo(tags, hexsha, i + 1)

\* A slice that kept the last k names.
ShownLast(names, k) == Drop(names, Len(names) - Min(k, Len(names)))

\* names[:k]
Shown(names, k) == Take(names, k)

\* The (+N) of a list of which k names are shown; 0: none is written.
MoreThan(names, k) == IF Len(names) > k THEN Len(names) - k ELSE 0

\* draw_vertical_timeline: the canvas it leaves.  head_raises: iter_commits
\* or self.repo.tags raised, so the outer except clause ran.  mark_raises:
\* self.repo.head.commit raises in the drawing loop.  failing: the branches
\* whose enumeration for branch_info raises.  The items are the commits of
\* HEAD, oldest first.
DrawnTimeline(commits, branches, head, tags, failing, head_raises, mark_raises) ==
    IF head_raises
    THEN Undrawn("Error", {})
    ELSE LET tips == {branches[i].tip : i \in
                         {j \in 1..Len(branches) : branches[j].name = head}}
             listed == IF tips = {} THEN << >>
                       ELSE Reversed(iter_commits(commits,
                                CHOOSE h \in tips : TRUE, TimelineMaxCount))
         IN  IF listed = << >>
             THEN Undrawn("No commits found", {})
             ELSE [outcome |-> "timeline",
                   nodes |-> [i \in 1..Len(listed) |->
                                 LET is_head ==
                                         listed[i] = HeadCommit(branches, head,
                                                                mark_raises)
                                     branch_info ==
                                         BranchInfo(commits, branches, failing,
                                                    listed[i], 1)
                                     tag_info == TagInfo(tags, listed[i], 1)
                                 IN  [hexsha |-> listed[i],
                                      time |-> commits[listed[i]].time,
                                      y |-> margin + (i - 1) * item_height,
                                      is_head |-> is_head,
                                      box_color |-> IF is_head THEN "lightgreen"
                                                    ELSE "lightblue",
                                      branches |-> Shown(branch_info, 3),
                                      branches_more |-> MoreThan(branch_info, 3),
                                      tags |-> Shown(tag_info, 2),
                                      tags_more |-> MoreThan(tag_info, 2)]],
                   failed |-> failing]

\* show_version_graph: the graph window is opened and the graph drawn.
draw_commit_graph ==
    /\ \E branches_raise \in BOOLEAN, head_raises \in BOOLEAN :
       \E failing \in SUBSET {repo_branches[i].name : i \in 1..Len(repo_branches)} :
           graph_canvas' =
               DrawnGraph(repo_commits, repo_branches, repo_head, failing,
                          branches_raise, head_raises)
    /\ UNCHANGED <<status_output, file_status_cache, snap_current,
                   status_label, merge_indicator, repo_tree, tree_selection,
                   file_tree, highlighted_files, populated_age, after_queue,
                   threads, buttons, commit_dialog, repo_commits,
                   repo_branches, repo_head, repo_tags, timeline_canvas>>

\* show_vertical_timeline: the timeline window is opened and the timeline
\* drawn.
draw_vertical_timeline ==
    /\ \E head_raises \in BOOLEAN, mark_raises \in BOOLEAN :
       \E failing \in SUBSET {repo_branches[i].name : i \in 1..Len(repo_branches)} :
           timeline_canvas' =
               DrawnTimeline(repo_commits, repo_branches, repo_head, repo_tags,
                             failing, head_raises, mark_raises)
    /\ UNCHANGED <<status_output, file_status_cache, snap_current,
                   status_label, merge_indicator, repo_tree, tree_selection,
                   file_tree, highlighted_files, populated_age, after_queue,
                   threads, buttons, commit_dialog, repo_commits,
                   repo_branches, repo_head, repo_tags, graph_canvas>>

\* The repository at construction, one of R, and no window open.
InitRepo(R) ==
    /\ \E r \in R : /\ repo_commits = r[1]
                    /\ repo_branches = r[2]
                    /\ repo_head = r[3]
    /\ repo_tags = << >>
    /\ graph_canvas = BlankCanvas
    /\ timeline_canvas = BlankCanvas

\* ------------------------------------------------------------ construction

ThreadIds == 1..MaxThreads

IdleThread == [kind |-> "idle", pc |-> "idle"]

ButtonNames == {"Pull", "Push", "Commit", "Add All", "Refresh"}

\* __init__ with a repository whose status output is in S: refresh_all,
\* setup_enhanced_refresh_cycle (which runs refresh_cycle once) and
\* schedule_highlight_clear, no status query failing.
InitGui(S) ==
    /\ status_output \in S
    /\ snap_current = TRUE
    /\ LET b == BuildCache(EmptyCache, status_output, FALSE,
                           "Repository refreshed")
       IN  /\ file_status_cache = b.cache
           /\ status_label = b.label
           /\ repo_tree = get_folder_status(b.cache, repo_path)
    /\ merge_indicator = MergeIndicator(status_output, in_merge, FALSE)
    /\ tree_selection = << >>
    /\ file_tree = << >>
    /\ highlighted_files = {}
    /\ populated_age = Ticks(HighlightDelayMs)
    /\ after_queue =
           schedule_highlight_clear(
               root_after(schedule_highlight_clear(<< >>), RefreshPeriodMs,
                          "refresh_cycle", "", FALSE))
    /\ threads = [t \in ThreadIds |-> IdleThread]
    /\ buttons = [b \in ButtonNames |-> [text |-> b, state |-> "NORMAL"]]
    /\ commit_dialog = FALSE

\* The same, on a repository of one branch.
InitWith(S) == InitGui(S) /\ InitRepo({PlainRepo})

\* ------------------------------------------------- primary-thread handlers

\* refresh_cycle, run by the event loop when its timer is due.
refresh_cycle ==
    /\ HeadDue("refresh_cycle")
    /\ \E query_raises, merge_raises \in BOOLEAN :
         LET b == BuildCache(file_status_cache, status_output, query_raises,
                             status_label)
         IN  /\ repo_loaded
             /\ file_status_cache' = b.cache
             /\ status_label' = b.label
             /\ snap_current' = ~query_raises
             /\ merge_indicator' =
                    MergeIndicator(status_output, in_merge, merge_raises)
    /\ after_queue' = root_after(Superseded(Tail(after_queue)),
                                 RefreshPeriodMs, "refresh_cycle", "", FALSE)
    /\ UNCHANGED <<status_output, repo_tree, tree_selection, file_tree,
                   highlighted_files, populated_age, threads, buttons,
                   commit_dialog>>
    /\ UNCHANGED graph_vars

\* The rows of the file list after the loop of clear_file_highlights.
ClearedRows(rows, selection, cache) ==
    [i \in 1..Len(rows) |->
        IF /\ rows[i].tag \in {"new_file", "modified_file", "staged_file",
                               "modified_staged_file"}
           /\ selection # << >>
           /\ DictGet(cache, os_path_join(selection, rows[i].name)) = "CLEAN"
        THEN [name |-> rows[i].name, tag |-> "clean_file",
              icon |-> get_file_icon("CLEAN")]
        ELSE rows[i]]

\* An expiry that dropped only the paths now clean.
KeepNonClean(highlighted, cache) ==
    {p \in highlighted : DictGet(cache, p) # "CLEAN"}

\* The highlighted set after clear_file_highlights:
\* self.highlighted_files.clear().
ClearedSet(highlighted, cache) == {}

\* clear_file_highlights, run by the event loop when its timer is due.
clear_file_highlights ==
    /\ HeadDue("clear_file_highlights")
    /\ file_tree' = ClearedRows(file_tree, tree_selection, file_status_cache)
    /\ highlighted_files' = ClearedSet(highlighted_files, file_status_cache)
    /\ after_queue' = Tail(after_queue)
    /\ UNCHANGED <<status_output, file_status_cache, snap_current,
                   status_label, merge_indicator, repo_tree, tree_selection,
                   populated_age, threads, buttons, commit_dialog>>
    /\ UNCHANGED graph_vars

\* The body of refresh_all, on the queue `queue` (the pending callbacks once
\* the caller is off the queue).  early_raises: reading HEAD raised, so the
\* outer except clause ran before anything was populated.  populate_changes
\* fills the two change lists, which are not part of the state, and its
\* error label is overwritten at once.
RefreshAllBody(queue) ==
    \E early_raises, query_raises \in BOOLEAN :
        IF early_raises
        THEN /\ status_label' = "Error refreshing"
             /\ after_queue' = queue
             /\ UNCHANGED <<file_status_cache, snap_current, repo_tree,
                            tree_selection>>
        ELSE LET b == BuildCache(file_status_cache, status_output,
                                 query_raises, status_label)
             IN  /\ repo_loaded
                 /\ file_status_cache' = b.cache
                 /\ snap_current' = ~query_raises
                 /\ repo_tree' = get_folder_status(b.cache, repo_path)
                 /\ tree_selection' = << >>
                 /\ status_label' = "Repository refreshed"
                 /\ after_queue' = schedule_highlight_clear(Superseded(queue))

\* refresh_all called from the menu or the refresh icon.
refresh_all ==
    /\ ~commit_dialog
    /\ RefreshAllBody(after_queue)
    /\ UNCHANGED <<status_output, merge_indicator, file_tree,
                   highlighted_files, populated_age, threads, buttons,
                   commit_dialog>>
    /\ UNCHANGED graph_vars

\* populate_file_list_enhanced: the rows are rebuilt and the non-clean files
\* of the folder join the highlighted set; no timer is touched.
populate_file_list_enhanced(folder_path) ==
    /\ file_tree' = FileRows(file_status_cache, folder_path,
                             ListDir(folder_path), 1)
    /\ highlighted_files' =
           highlighted_files \cup HighlightedBy(file_status_cache, folder_path)
    /\ populated_age' =
           IF HighlightedBy(file_status_cache, folder_path) # {} THEN 0
           ELSE populated_age

\* on_tree_select on the item of the folder `path` of the repository tree.
\* (A modal prompt keeps the user from the main window; timers still run.)
on_tree_select_at(path) ==
    /\ ~commit_dialog
    /\ tree_selection' = path
    /\ populate_file_list_enhanced(path)
    /\ UNCHANGED <<status_output, file_status_cache, snap_current,
                   status_label, merge_indicator, repo_tree, after_queue,
                   threads, buttons, commit_dialog>>
    /\ UNCHANGED graph_vars

\* on_tree_select: the user selects the root item of the repository tree.
on_tree_select == on_tree_select_at(repo_path)

\* ------------------------------------------------------- worker threads

\* The module imports (lines 7-20) bind no name `time`, so time.sleep in
\* refresh_worker raises NameError.
TimeImported == FALSE

\* The callbacks a worker of that kind posts at most.
Needs(kind) == IF kind \in {"pull", "erefresh"} THEN 2 ELSE 1

\* The callbacks posted by workers and still waiting.
PostedCount(queue) ==
    Cardinality({i \in 1..Len(queue) :
        queue[i].cb \notin {"refresh_cycle", "clear_file_highlights"}})

RECURSIVE SumNeeds(_)
SumNeeds(T) ==
    IF T = {} THEN 0
    ELSE LET t == CHOOSE x \in T : TRUE
         IN  Needs(threads[t].kind) + SumNeeds(T \ {t})

\* A thread can be started: one is free, and the queue has room for what the
\* running workers and this one will post.
CanStart(t, kind) ==
    /\ threads[t] = IdleThread
    /\ \A u \in ThreadIds : u < t => threads[u] # IdleThread
    /\ PostedCount(after_queue)
         + SumNeeds({u \in ThreadIds : threads[u] # IdleThread})
         + Needs(kind) <= MaxPosted

\* threading.Thread(target=worker, daemon=True).start()
StartThread(t, kind, pc) == threads' = [threads EXCEPT ![t] = [kind |-> kind, pc |-> pc]]

\* git_pull, git_push, git_fetch (the menu commands): a worker is started.
git_pull ==
    /\ ~commit_dialog /\ repo_loaded
    /\ \E t \in ThreadIds : CanStart(t, "pull") /\ StartThread(t, "pull", "start")
    /\ UNCHANGED <<status_output, file_status_cache, snap_current,
                   status_label, merge_indicator, repo_tree, tree_selection,
                   file_tree, highlighted_files, populated_age, after_queue,
                   buttons, commit_dialog>>
    /\ UNCHANGED graph_vars

git_push ==
    /\ ~commit_dialog /\ repo_loaded
    /\ \E t \in ThreadIds : CanStart(t, "push") /\ StartThread(t, "push", "start")
    /\ UNCHANGED <<status_output, file_status_cache, snap_current,
                   status_label, merge_indicator, repo_tree, tree_selection,
                   file_tree, highlighted_files, populated_age, after_queue,
                   buttons, commit_dialog>>
    /\ UNCHANGED graph_vars

git_fetch ==
    /\ ~commit_dialog /\ repo_loaded
    /\ \E t \in ThreadIds : CanStart(t, "fetch") /\ StartThread(t, "fetch", "start")
    /\ UNCHANGED <<status_output, file_status_cache, snap_current,
                   status_label, merge_indicator, repo_tree, tree_selection,
                   file_tree, highlighted_files, populated_age, after_queue,
                   buttons, commit_dialog>>
    /\ UNCHANGED graph_vars

\* The first statement of pull_worker, push_worker and fetch_worker: the
\* worker itself sets the status label.
ProgressLabel(kind) ==
    CASE kind = "pull" -> "Pulling changes..."
      [] kind = "push" -> "Pushing changes..."
      [] kind = "fetch" -> "Fetching changes..."

menu_worker_begin(t) ==
    /\ threads[t].pc = "start"
    /\ status_label' = ProgressLabel(threads[t].kind)
    /\ threads' = [threads EXCEPT ![t].pc = "io"]
    /\ UNCHANGED <<status_output, file_status_cache, snap_current,
                   merge_indicator, repo_tree, tree_selection, file_tree,
                   highlighted_files, populated_age, after_queue, buttons,
                   commit_dialog>>
    /\ UNCHANGED graph_vars

\* root.after(0, cb), called by a worker.
post(queue, cb, arg) == root_after(queue, 0, cb, arg, FALSE)

DoneLabel(kind) ==
    CASE kind = "pull" -> "Pull completed"
      [] kind = "push" -> "Push completed"
      [] kind = "fetch" -> "Fetch completed"

\* A pull worker that called refresh_all itself instead of posting it.
WorkerRefreshesItself(t) ==
    /\ threads[t].pc = "io"
    /\ threads[t].kind \in {"pull", "push", "fetch"}
    /\ \E ok \in BOOLEAN :
         IF ok /\ threads[t].kind = "pull"
         THEN RefreshAllBody(post(after_queue, "set_status", DoneLabel("pull")))
         ELSE /\ after_queue' =
                     IF ~ok THEN post(after_queue, "showerror", threads[t].kind)
                     ELSE post(after_queue, "set_status",
                               DoneLabel(threads[t].kind))
              /\ UNCHANGED <<file_status_cache, snap_current, status_label,
                             repo_tree, tree_selection>>
    /\ threads' = [threads EXCEPT ![t] = IdleThread]
    /\ UNCHANGED <<status_output, merge_indicator, file_tree,
                   highlighted_files, populated_age, buttons, commit_dialog>>
    /\ UNCHANGED graph_vars

\* The rest of pull_worker, push_worker and fetch_worker: the remote
\* operation returns or raises, and the outcome is posted.
menu_worker_end(t) ==
    /\ threads[t].pc = "io"
    /\ threads[t].kind \in {"pull", "push", "fetch"}
    /\ \E ok \in BOOLEAN :
         after_queue' =
             IF ~ok THEN post(after_queue, "showerror", threads[t].kind)
             ELSE IF threads[t].kind = "pull"
             THEN post(post(after_queue, "set_status", DoneLabel("pull")),
                       "refresh_all", "")
             ELSE post(after_queue, "set_status", DoneLabel(threads[t].kind))
    /\ threads' = [threads EXCEPT ![t] = IdleThread]
    /\ UNCHANGED <<status_output, file_status_cache, snap_current,
                   status_label, merge_indicator, repo_tree, tree_selection,
                   file_tree, highlighted_files, populated_age, buttons,
                   commit_dialog>>
    /\ UNCHANGED graph_vars

\* set_button_operating_state
OperatingText(button) ==
    CASE button = "Pull" -> "Pulling..."
      [] button = "Push" -> "Pushing..."
      [] button = "Commit" -> "Committing..."
      [] button = "Add All" -> "Adding..."
      [] button = "Refresh" -> "Refreshing..."

set_button_operating_state(button) ==
    [buttons EXCEPT ![button] =
        [text |-> OperatingText(button), state |-> "DISABLED"]]

\* reset_button_state(button, operation_name)
reset_button_state(button) ==
    [buttons EXCEPT ![button] = [text |-> button, state |-> "NORMAL"]]

\* The worker each toolbar button starts.
WorkerOf(button) ==
    CASE button = "Pull" -> "epull"
      [] button = "Push" -> "epush"
      [] button = "Commit" -> "ecommit"
      [] button = "Add All" -> "eadd"
      [] button = "Refresh" -> "erefresh"

ButtonOf(kind) == CHOOSE b \in ButtonNames : WorkerOf(b) = kind

\* enhanced_git_pull, enhanced_git_push, enhanced_git_add_all and
\* enhanced_refresh_all: the button is put in the operating state and the
\* worker started.  A disabled button does not run its command.
enhanced_operation(button) ==
    /\ ~commit_dialog
    /\ button \in {"Pull", "Push", "Add All", "Refresh"}
    /\ buttons[button].state = "NORMAL"
    /\ buttons' = set_button_operating_state(button)
    /\ \E t \in ThreadIds :
           CanStart(t, WorkerOf(button)) /\ StartThread(t, WorkerOf(button), "io")
    /\ UNCHANGED <<status_output, file_status_cache, snap_current,
                   status_label, merge_indicator, repo_tree, tree_selection,
                   file_tree, highlighted_files, populated_age, after_queue,
                   commit_dialog>>
    /\ UNCHANGED graph_vars

\* enhanced_git_commit up to the prompt: the button is put in the operating
\* state and the message is asked for.
enhanced_git_commit ==
    /\ ~commit_dialog
    /\ buttons["Commit"].state = "NORMAL"
    /\ buttons' = set_button_operating_state("Commit")
    /\ commit_dialog' = TRUE
    /\ UNCHANGED <<status_output, file_status_cache, snap_current,
                   status_label, merge_indicator, repo_tree, tree_selection,
                   file_tree, highlighted_files, populated_age, after_queue,
                   threads>>
    /\ UNCHANGED graph_vars

\* enhanced_git_commit from the prompt on: without a message the button is
\* reset, with one the worker is started.
commit_prompt_closed ==
    /\ commit_dialog
    /\ commit_dialog' = FALSE
    /\ \E message \in BOOLEAN :
         IF ~message
         THEN /\ buttons' = reset_button_state("Commit")
              /\ UNCHANGED threads
         ELSE /\ \E t \in ThreadIds :
                    CanStart(t, "ecommit") /\ StartThread(t, "ecommit", "io")
              /\ UNCHANGED buttons
    /\ UNCHANGED <<status_output, file_status_cache, snap_current,
                   status_label, merge_indicator, repo_tree, tree_selection,
                   file_tree, highlighted_files, populated_age, after_queue>>
    /\ UNCHANGED graph_vars

\* pull_worker, push_worker, commit_worker, add_worker and refresh_worker of
\* the toolbar operations: the operation returns or raises, and the outcome
\* is posted.  refresh_worker raises at time.sleep unless `time` is bound.
toolbar_worker(t) ==
    /\ threads[t].pc = "io"
    /\ threads[t].kind \in {"epull", "epush", "ecommit", "eadd", "erefresh"}
    /\ LET button == ButtonOf(threads[t].kind)
       IN  \E ok \in BOOLEAN :
             after_queue' =
                 IF threads[t].kind = "erefresh"
                 THEN IF TimeImported
                      THEN post(post(after_queue, "refresh_all_data", ""),
                                "complete_operation", button)
                      ELSE post(after_queue, "handle_operation_error", button)
                 ELSE IF ok
                 THEN post(after_queue, "complete_operation", button)
                 ELSE post(after_queue, "handle_operation_error", button)
    /\ threads' = [threads EXCEPT ![t] = IdleThread]
    /\ UNCHANGED <<status_output, file_status_cache, snap_current,
                   status_label, merge_indicator, repo_tree, tree_selection,
                   file_tree, highlighted_files, populated_age, buttons,
                   commit_dialog>>
    /\ UNCHANGED graph_vars

\* ------------------------------------------------------ posted callbacks

PostedKinds ==
    {"set_status", "showerror", "refresh_all", "refresh_all_data",
     "complete_operation", "handle_operation_error"}

SuccessLabel(button) ==
    CASE button = "Pull" -> "Pull completed successfully"
      [] button = "Push" -> "Push completed successfully"
      [] button = "Commit" -> "Commit completed successfully"
      [] button = "Add All" -> "All changes added to staging"
      [] button = "Refresh" -> "Repository refreshed"

FailureLabel(button) ==
    CASE button = "Pull" -> "Pull failed"
      [] button = "Push" -> "Push failed"
      [] button = "Commit" -> "Commit failed"
      [] button = "Add All" -> "Add All failed"
      [] button = "Refresh" -> "Refresh failed"

\* refresh_all_data: the cache is built, populate_repository_tree builds it
\* again and empties the tree selection, so the file list is repopulated only
\* if a selection is left.
refresh_all_data(queue) ==
    \E first_raises, query_raises \in BOOLEAN :
        LET a == BuildCache(file_status_cache, status_output, first_raises,
                            status_label)
            b == BuildCache(a.cache, status_output, query_raises, a.label)
            c == populate_changes(status_output, query_raises)
            selection == << >>
        IN  /\ repo_loaded
            /\ file_status_cache' = b.cache
            /\ status_label' = IF c.raised THEN "Error reading status"
                               ELSE b.label
            /\ snap_current' = ~query_raises
            /\ repo_tree' = get_folder_status(b.cache, repo_path)
            /\ tree_selection' = selection
            /\ after_queue' = Superseded(queue)
            /\ IF selection # << >>
               THEN /\ file_tree' = FileRows(b.cache, selection,
                                             ListDir(selection), 1)
                    /\ highlighted_files' = highlighted_files
                           \cup HighlightedBy(b.cache, selection)
                    /\ populated_age' =
                           IF HighlightedBy(b.cache, selection) # {} THEN 0
                           ELSE populated_age
               ELSE UNCHANGED <<file_tree, highlighted_files, populated_age>>

\* The event loop runs the callback a worker posted.  An error callback is
\* a lambda that reads the variable e of the worker's except clause; here it
\* runs while the worker is still in the clause and e is bound.
run_posted ==
    /\ after_queue # << >>
    /\ after_queue[1].rem = 0
    /\ after_queue[1].cb \in PostedKinds
    /\ LET e == after_queue[1]
           rest == Tail(after_queue)
       IN  CASE e.cb = "set_status" ->
                 /\ status_label' = e.arg
                 /\ after_queue' = rest
                 /\ UNCHANGED <<file_status_cache, snap_current,
                                merge_indicator, repo_tree, tree_selection,
                                file_tree, highlighted_files, populated_age,
                                buttons>>
             [] e.cb = "showerror" ->
                 /\ after_queue' = rest
                 /\ UNCHANGED <<file_status_cache, snap_current, status_label,
                                merge_indicator, repo_tree, tree_selection,
                                file_tree, highlighted_files, populated_age,
                                buttons>>
             [] e.cb = "refresh_all" ->
                 /\ RefreshAllBody(rest)
                 /\ UNCHANGED <<merge_indicator, file_tree, highlighted_files,
                                populated_age, buttons>>
             [] e.cb = "refresh_all_data" ->
                 /\ refresh_all_data(rest)
                 /\ UNCHANGED <<merge_indicator, buttons>>
             [] e.cb = "complete_operation" ->
                 /\ buttons' = reset_button_state(e.arg)
                 /\ status_label' = SuccessLabel(e.arg)
                 /\ \E merge_raises \in BOOLEAN :
                        merge_indicator' =
                            MergeIndicator(status_output, in_merge, merge_raises)
                 /\ after_queue' = rest
                 /\ UNCHANGED <<file_status_cache, snap_current, repo_tree,
                                tree_selection, file_tree, highlighted_files,
                                populated_age>>
             [] e.cb = "handle_operation_error" ->
                 /\ buttons' = reset_button_state(e.arg)
                 /\ status_label' = FailureLabel(e.arg)
                 /\ after_queue' = rest
                 /\ UNCHANGED <<file_status_cache, snap_current,
                                merge_indicator, repo_tree, tree_selection,
                                file_tree, highlighted_files, populated_age>>
    /\ UNCHANGED <<status_output, threads, commit_dialog>>
    /\ UNCHANGED graph_vars

\* The event loop runs an error callback after the worker that posted it has
\* left its except clause: e is unbound by then, the lambda raises NameError
\* at str(e), and its call of handle_operation_error (or of
\* messagebox.showerror) does not happen.
run_posted_unbound ==
    /\ after_queue # << >>
    /\ after_queue[1].rem = 0
    /\ after_queue[1].cb \in {"handle_operation_error", "showerror"}
    /\ after_queue' = Tail(after_queue)
    /\ UNCHANGED <<status_output, file_status_cache, snap_current,
                   status_label, merge_indicator, repo_tree, tree_selection,
                   file_tree, highlighted_files, populated_age, threads,
                   buttons, commit_dialog>>
    /\ UNCHANGED graph_vars

\* ---------------------------------------------------------- specifications

InitDecode == InitWith(DecodeOutputs)

NextDecode == Tick \/ refresh_cycle \/ clear_file_highlights

\* Every change code of the alphabet, decoded by the periodic refresh.
SpecDecode == InitDecode /\ [][NextDecode]_vars

InitBuild == InitWith(BuildOutputs)

NextBuild == WorktreeChange(BuildOutputs) \/ refresh_all

\* Snapshot builds over changing, possibly malformed, status outputs.
SpecBuild == InitBuild /\ [][NextBuild]_vars

InitHighlight == InitWith(SmallOutputs)

NextHighlight ==
    \/ WorktreeChange(SmallOutputs)
    \/ Tick
    \/ refresh_cycle
    \/ clear_file_highlights
    \/ refresh_all
    \/ on_tree_select

\* The highlighted set and its expiry timer.
SpecHighlight == InitHighlight /\ [][NextHighlight]_vars

\* The folders of the file list and their aggregated status.
InitFolders == InitWith(FolderOutputs)

NextFolders ==
    \/ refresh_all
    \/ \E path \in Folders : on_tree_select_at(path)

SpecFolders == InitFolders /\ [][NextFolders]_vars

\* The commit graph and the timeline of every repository of Repos.
InitGraph == InitGui({<< >>}) /\ InitRepo(Repos)

NextGraph ==
    \/ draw_commit_graph
    \/ draw_vertical_timeline

SpecGraph == InitGraph /\ [][NextGraph]_vars

\* The timeline of the repositories with tags.
InitTimeline ==
    /\ InitGui({<< >>})
    /\ \E r \in TimelineRepos : /\ repo_commits = r[1]
                                /\ repo_branches = r[2]
                                /\ repo_head = r[3]
                                /\ repo_tags = r[4]
    /\ graph_canvas = BlankCanvas
    /\ timeline_canvas = BlankCanvas

NextTimeline == draw_vertical_timeline

SpecTimeline == InitTimeline /\ [][NextTimeline]_vars

\* The commit graph of the repositories of many branches.
InitPalette == InitGui({<< >>}) /\ InitRepo(ManyBranchRepos)

NextPalette == draw_commit_graph

SpecPalette == InitPalette /\ [][NextPalette]_vars

\* The worker threads and the refreshes they compete with.
TinyOutputs == {<< >>, <<Line(" ", "M", <<"a">>)>>}

InitWorkers == InitWith(TinyOutputs)

NextWorkers ==
    \/ WorktreeChange(TinyOutputs)
    \/ refresh_all
    \/ git_pull
    \/ git_push
    \/ git_fetch
    \/ \E t \in ThreadIds : menu_worker_begin(t)
    \/ \E t \in ThreadIds : menu_worker_end(t)
    \/ \E button \in ButtonNames : enhanced_operation(button)
    \/ enhanced_git_commit
    \/ commit_prompt_closed
    \/ \E t \in ThreadIds : toolbar_worker(t)
    \/ run_posted

SpecWorkers == InitWorkers /\ [][NextWorkers]_vars

\* The toolbar operations and their buttons.
InitButtons == InitWith({<< >>, <<Line("U", "U", <<"a">>)>>})

NextButtons ==
    \/ \E button \in ButtonNames : enhanced_operation(button)
    \/ enhanced_git_commit
    \/ commit_prompt_closed
    \/ \E t \in ThreadIds : toolbar_worker(t)
    \/ run_posted
    \/ run_posted_unbound

\* The workers end, the prompt is closed, and the event loop keeps running
\* the callbacks that are due.
FairButtons ==
    /\ WF_vars(\E t \in ThreadIds : toolbar_worker(t))
    /\ WF_vars(commit_prompt_closed)
    /\ WF_vars(run_posted \/ run_posted_unbound)

SpecButtons == InitButtons /\ [][NextButtons]_vars /\ FairButtons

Init == InitWith(SmallOutputs)

Next ==
    \/ WorktreeChange(SmallOutputs)
    \/ Tick
    \/ refresh_cycle
    \/ clear_file_highlights
    \/ refresh_all
    \/ on_tree_select
    \/ git_pull
    \/ git_push
    \/ git_fetch
    \/ \E t \in ThreadIds : menu_worker_begin(t)
    \/ \E t \in ThreadIds : menu_worker_end(t)
    \/ \E button \in ButtonNames : enhanced_operation(button)
    \/ enhanced_git_commit
    \/ commit_prompt_closed
    \/ \E t \in ThreadIds : toolbar_worker(t)
    \/ run_posted
    \/ run_posted_unbound
    \/ draw_commit_graph
    \/ draw_vertical_timeline

\* The whole program: timers, user commands, worker threads.
Spec == Init /\ [][Next]_vars

\* -------------------------------------------------------------- the claims

\* Section 4.1 of the specification: the decision rules 1-6 in priority
\* order, first match wins.
decode(code) ==
    IF code \in {<<"U", "U">>, <<"A", "A">>, <<"D", "D">>}
       \/ code[1] = "U" \/ code[2] = "U"
    THEN "CONFLICTED"
    ELSE IF code[1] \in {"M", "A", "D", "R", "C"} /\ code[2] \in {"M", "D"}
    THEN "MODIFIED_STAGED"
    ELSE IF code[1] \in {"M", "A", "D", "R", "C"} THEN "STAGED"
    ELSE IF code[2] \in {"M", "D"} THEN "MODIFIED"
    ELSE IF code[2] = "?" THEN "NEW"
    ELSE "CLEAN"

\* A change line "<2-char-code> <path>", and a non-blank line with fewer than
\* two code characters.
WellFormed(line) == ~IsBlank(line) /\ Len(line) > 3
Malformed(line) == ~IsBlank(line) /\ Len(line) < 2

\* The key of a line's path: repoRoot joined with the relative path.
KeyOf(line) == os_path_join(repo_path, Drop(line, 3))

\* The snapshot section 4.2 prescribes for the change lines: one entry for
\* each well-formed line whose decoded status is not Clean.
SnapshotOf(lines) ==
    LET kept == {i \in 1..Len(lines) :
                    WellFormed(lines[i]) /\ decode(Take(lines[i], 2)) # "CLEAN"}
    IN  [p \in {KeyOf(lines[i]) : i \in kept} |->
            decode(Take(lines[CHOOSE i \in kept : KeyOf(lines[i]) = p], 2))]

\* C1: for every two-character code of the alphabet, the status the build
\* records for the line's path is the one rules 1-6 of section 4.1 give, Clean
\* meaning that no entry is recorded.
C1_BuildFollowsRules ==
    snap_current =>
        \A i \in 1..Len(status_output) :
            WellFormed(status_output[i]) =>
                DictGet(file_status_cache, KeyOf(status_output[i]))
                    = decode(Take(status_output[i], 2))

\* C2: every code that is UU, AA or DD, or has a 'U' on either side, is
\* recorded as Conflicted, whatever the staged / modified rules would say.
C2_UnmergedIsConflicted ==
    snap_current =>
        \A i \in 1..Len(status_output) :
            LET code == Take(status_output[i], 2)
            IN  (/\ WellFormed(status_output[i])
                 /\ \/ code \in {<<"U", "U">>, <<"A", "A">>, <<"D", "D">>}
                    \/ code[1] = "U"
                    \/ code[2] = "U")
                => DictGet(file_status_cache, KeyOf(status_output[i]))
                       = "CONFLICTED"

C4_MalformedLineOnlySkipped ==
    (snap_current /\ \E i \in 1..Len(status_output) : Malformed(status_output[i]))
        => \A i \in 1..Len(status_output) :
               (WellFormed(status_output[i])
                    /\ decode(Take(status_output[i], 2)) # "CLEAN")
               => /\ KeyOf(status_output[i]) \in DOMAIN file_status_cache
                  /\ file_status_cache[KeyOf(status_output[i])]
                         = decode(Take(status_output[i], 2))

\* C5: whatever happens in a rebuild, the cache the readers find afterwards is
\* the complete previous snapshot or the complete new one.
C5_ReadersSeeOldOrNew ==
    [][\/ file_status_cache' = file_status_cache
       \/ file_status_cache' = SnapshotOf(status_output')]_vars

\* The refreshes waiting in the queue.
RefreshCount(queue) ==
    Cardinality({i \in 1..Len(queue) :
        queue[i].cb \in {"refresh_all", "refresh_all_data"}})

\* C6: a refresh requested before another one whose snapshot is already
\* installed is discarded when it comes to run: it installs nothing.
C6_OlderRefreshDiscarded ==
    [][(/\ after_queue # << >>
        /\ after_queue[1].rem = 0
        /\ after_queue[1].cb \in {"refresh_all", "refresh_all_data"}
        /\ ~after_queue[1].fresh
        /\ RefreshCount(after_queue') < RefreshCount(after_queue))
       => UNCHANGED <<file_status_cache, snap_current>>]_vars

\* A step of a worker thread: a running thread moves on or ends.
WorkerStep ==
    \E t \in ThreadIds : threads[t] # IdleThread /\ threads'[t] # threads[t]

\* C7: no step of a worker thread writes the status cache or the highlighted
\* set; the workers only post callbacks.
C7_WorkersWriteNoSharedState ==
    [][WorkerStep => UNCHANGED <<file_status_cache, highlighted_files>>]_vars

\* A pull worker has ended and posted its refresh while the cache is out of
\* date; another worker is still running.
C7_Witness ==
    /\ ~snap_current
    /\ \E i \in 1..Len(after_queue) : after_queue[i].cb = "refresh_all"
    /\ \E t \in ThreadIds : threads[t].pc = "io"
    /\ file_status_cache # SnapshotOf(status_output)

\* The highlight-clear timers pending.
ClearCount(queue) ==
    Cardinality({i \in 1..Len(queue) : queue[i].cb = "clear_file_highlights"})

\* C8: at most one highlight-clear timer is pending.
C8_OneHighlightTimer == ClearCount(after_queue) <= 1

\* refresh_all has re-armed the timer after time passed: the one pending
\* timer has the full delay to run, the refresh cycle less.
C8_Witness ==
    /\ ClearCount(after_queue) = 1
    /\ \E i, j \in 1..Len(after_queue) :
           /\ after_queue[i].cb = "clear_file_highlights"
           /\ after_queue[i].rem = Ticks(HighlightDelayMs)
           /\ after_queue[j].cb = "refresh_cycle"
           /\ after_queue[j].rem < Ticks(RefreshPeriodMs)

\* C9: no path leaves the highlighted set before the full delay has passed
\* since paths were last added to it.
C9_HighlightsLastFullDelay ==
    [][(\E p \in highlighted_files : p \notin highlighted_files')
       => populated_age >= Ticks(HighlightDelayMs)]_vars

\* The highlight timer fires: it is due and leaves the queue.
TimerFires ==
    /\ HeadDue("clear_file_highlights")
    /\ ClearCount(after_queue') < ClearCount(after_queue)

Beneath(p, folder) == StartsWith(p, folder \o <<"/">>)

\* Section 3 of the specification: the precedence scan over the entries of
\* the snapshot beneath the folder.
aggregate(snapshot, folder) ==
    LET under == {p \in DOMAIN snapshot : Beneath(p, folder)}
    IN  IF \E p \in under : snapshot[p] \in {"STAGED", "MODIFIED_STAGED"}
        THEN "STAGED"
        ELSE IF \E p \in under : snapshot[p] = "MODIFIED" THEN "MODIFIED"
        ELSE IF \E p \in under : snapshot[p] = "NEW" THEN "NEW"
        ELSE "CLEAN"

\* The indicator of an aggregate, by colour.
IndicatorOf(status) ==
    CASE status = "STAGED" -> "green"
      [] status = "MODIFIED" -> "orange"
      [] status = "NEW" -> "red"
      [] OTHER -> "plain"

\* The rows of the file list that show folders, with the folder's path.
FolderRowPaths ==
    {<<i, os_path_join(tree_selection, file_tree[i].name)>> :
        i \in {j \in 1..Len(file_tree) :
                  IsDir(os_path_join(tree_selection, file_tree[j].name))}}

\* C11: the aggregate shown for a folder is Staged if an entry under it is
\* Staged or ModifiedStaged, else Modified if one is Modified, else New if one
\* is New, else Clean.
C11_AggregateFollowsPrecedence ==
    tree_selection # << >> =>
        \A r \in FolderRowPaths :
            /\ file_tree[r[1]].tag
                   = FolderTag(aggregate(file_status_cache, r[2]))
            /\ file_tree[r[1]].icon
                   = IndicatorOf(aggregate(file_status_cache, r[2]))

\* C12: a folder with no entry beneath it shows Clean, whatever lies under
\* other folders, and a folder with one entry beneath it, at any depth, shows
\* that entry's status.
C12_AggregateOfEntriesBeneath ==
    tree_selection # << >> =>
        \A r \in FolderRowPaths :
            LET under == {p \in DOMAIN file_status_cache : Beneath(p, r[2])}
            IN  /\ under = {} => file_tree[r[1]].tag = "clean_folder"
                /\ \A p \in under :
                       (under = {p} /\ file_status_cache[p] = "MODIFIED")
                           => file_tree[r[1]].tag = "modified_folder"

\* ------------------------------------------------------- the commit graph

\* The branches the graph was built from: those whose enumeration did not
\* raise.
EnumeratedBranches ==
    {i \in 1..Len(repo_branches) : repo_branches[i].name \notin graph_canvas.failed}

\* The names of the enumerated branches whose bounded history holds commit h.
BranchNamesOf(h) ==
    {repo_branches[i].name : i \in
        {j \in EnumeratedBranches :
            \E k \in 1..Len(iter_commits(repo_commits, repo_branches[j].tip,
                                          GraphMaxCount)) :
                iter_commits(repo_commits, repo_branches[j].tip,
                             GraphMaxCount)[k] = h}}

\* The number of times v occurs in seq.
Count(seq, v) == Cardinality({i \in 1..Len(seq) : seq[i] = v})

\* The graph was built (its build did not end in the outer except clause).
GraphBuilt == graph_canvas.outcome \in {"graph", "No commits found"}

\* C13: a commit in the histories of two or more branches is one node of the
\* graph, and the node's branch names are the branches whose history holds
\* it, each name once.
C13_SharedCommitIsOneNode ==
    GraphBuilt =>
        \A h \in Hashes :
            Cardinality(BranchNamesOf(h)) >= 2 =>
                LET at == {i \in 1..Len(graph_canvas.nodes) :
                              graph_canvas.nodes[i].hexsha = h}
                IN  /\ Cardinality(at) = 1
                    /\ \A i \in at :
                           /\ Len(graph_canvas.nodes[i].branches)
                                  = Cardinality(BranchNamesOf(h))
                           /\ \A n \in BranchNamesOf(h) :
                                  Count(graph_canvas.nodes[i].branches, n) = 1

\* A graph with a node of a commit that two branches share.
C13_Witness ==
    /\ graph_canvas.outcome = "graph"
    /\ \E i \in 1..Len(graph_canvas.nodes) :
           /\ Cardinality(BranchNamesOf(graph_canvas.nodes[i].hexsha)) = 2
           /\ graph_canvas.nodes[i].branches = <<"dev", "main">>

\* The x of the layout formula for the node at index i of the sorted list,
\* the first index being 0.
SlotX(i) == i * (commit_width + margin_x) + margin_x

\* No two nodes of the graph have the same hash, and no two the same x.
NodesDistinct ==
    \A i, j \in 1..Len(graph_canvas.nodes) :
        i # j => /\ graph_canvas.nodes[i].hexsha # graph_canvas.nodes[j].hexsha
                 /\ graph_canvas.nodes[i].x # graph_canvas.nodes[j].x

\* C14 (as stated): the nodes have pairwise-unique hashes and x, the x of the
\* node at sorted index i is i * (nodeWidth + margin) + margin, and every node
\* has the same y.
C14_NodeXIsSlotFormula ==
    GraphBuilt =>
        /\ NodesDistinct
        /\ \A i \in 1..Len(graph_canvas.nodes) :
               /\ graph_canvas.nodes[i].x = SlotX(i - 1)
               /\ graph_canvas.nodes[i].y = graph_canvas.nodes[1].y

\* C14 (amended): the nodes have pairwise-unique hashes and x; the rectangle
\* of the node at sorted index i is drawn at x = i * (nodeWidth + margin) +
\* margin and y = marginTop, and the x and y kept in the node are the centre
\* of that rectangle, half a node width right and half a node height down.
C14_NodeXIsSlotCentre ==
    GraphBuilt =>
        /\ NodesDistinct
        /\ \A i \in 1..Len(graph_canvas.nodes) :
               /\ graph_canvas.nodes[i].rect_x = SlotX(i - 1)
               /\ graph_canvas.nodes[i].rect_y = margin_y
               /\ graph_canvas.nodes[i].x = SlotX(i - 1) + commit_width \div 2
               /\ graph_canvas.nodes[i].y = margin_y + commit_height \div 2

\* A graph of three nodes, the third in the third slot.
C14_Witness ==
    /\ graph_canvas.outcome = "graph"
    /\ Len(graph_canvas.nodes) = 3
    /\ graph_canvas.nodes[3].rect_x = SlotX(2)

\* The place of a hash in the order of the hash strings.
HashRank(h) == CASE h = "c1" -> 1 [] h = "c2" -> 2 [] h = "c3" -> 3

\* The pairs of places i < j of the node list whose commits have the same
\* date.
TiedPairs ==
    {p \in (1..Len(graph_canvas.nodes)) \X (1..Len(graph_canvas.nodes)) :
        /\ p[1] < p[2]
        /\ graph_canvas.nodes[p[1]].time = graph_canvas.nodes[p[2]].time}

\* C15: the node list is ordered by date, newest first, and the nodes of
\* equal date are ordered by their hash strings (all ascending or all
\* descending), whatever the order the branches were enumerated in.
C15_TiesOrderedByHash ==
    GraphBuilt =>
        /\ \A i, j \in 1..Len(graph_canvas.nodes) :
               i < j => graph_canvas.nodes[i].time >= graph_canvas.nodes[j].time
        /\ \/ \A p \in TiedPairs :
                  HashRank(graph_canvas.nodes[p[1]].hexsha)
                      < HashRank(graph_canvas.nodes[p[2]].hexsha)
           \/ \A p \in TiedPairs :
                  HashRank(graph_canvas.nodes[p[1]].hexsha)
                      > HashRank(graph_canvas.nodes[p[2]].hexsha)

\* The hashes of the nodes of a canvas, in their order.
HashesOf(canvas) == [i \in 1..Len(canvas.nodes) |-> canvas.nodes[i].hexsha]

\* The set of the hashes of the nodes of a canvas.
HashSetOf(canvas) == {canvas.nodes[i].hexsha : i \in 1..Len(canvas.nodes)}

\* The commits the enumerated branches yielded.
EnumeratedCommits == {h \in Hashes : BranchNamesOf(h) # {}}

\* C17: a branch whose enumeration fails is skipped: it gives no node and no
\* branch name, every commit of the branches that were enumerated is a node,
\* and the build gives a graph whenever some branch yielded a commit.
C17_FailedBranchIsSkipped ==
    GraphBuilt =>
        /\ \A i \in 1..Len(graph_canvas.nodes) :
               /\ graph_canvas.nodes[i].hexsha \in EnumeratedCommits
               /\ \A n \in graph_canvas.failed :
                      Count(graph_canvas.nodes[i].branches, n) = 0
        /\ \A h \in EnumeratedCommits : h \in HashSetOf(graph_canvas)
        /\ EnumeratedCommits # {} => graph_canvas.outcome = "graph"

\* A graph built of branch main after the enumeration of dev, which holds a
\* commit main does not, had failed.
C17_Witness ==
    /\ graph_canvas.outcome = "graph"
    /\ graph_canvas.failed = {"dev"}
    /\ \E i \in 1..Len(repo_branches) :
           /\ repo_branches[i].name = "dev"
           /\ repo_branches[i].tip \notin HashSetOf(graph_canvas)

\* ----------------------------------------------------------- the timeline

\* C16: when the graph and the timeline were built from the same set of
\* commits, the timeline lists them in the exact reverse of the graph's node
\* order.
C16_TimelineReversesGraph ==
    (/\ graph_canvas.outcome = "graph"
     /\ timeline_canvas.outcome = "timeline"
     /\ HashSetOf(graph_canvas) = HashSetOf(timeline_canvas))
    => HashesOf(timeline_canvas) = Reversed(HashesOf(graph_canvas))

\* C18: the 'empty' outcome of the graph and of the timeline is that of a
\* repository without commits only: a build that could not obtain the commits
\* of a repository that has some ends in another outcome.
C18_EmptyIsNotFailure ==
    /\ graph_canvas.outcome = "No commits found" => repo_branches = << >>
    /\ timeline_canvas.outcome = "No commits found" => repo_branches = << >>

\* ------------------------------------------- the decoder, rule by rule

\* The index characters and the worktree characters of rules 2-4.
IndexChars == {"M", "A", "D", "R", "C"}
WorktreeChars == {"M", "D"}

\* A conflict code: UU, AA, DD, or a 'U' on either side.
ConflictCode(code) ==
    \/ code \in {<<"U", "U">>, <<"A", "A">>, <<"D", "D">>}
    \/ code[1] = "U"
    \/ code[2] = "U"

\* C19: for a code that is not a conflict code, an index character of
\* {M,A,D,R,C} with a worktree character of {M,D} is recorded as
\* ModifiedStaged; otherwise an index character of {M,A,D,R,C} as Staged;
\* otherwise a worktree character of {M,D} as Modified; otherwise a worktree
\* character '?' as New.
C19_NonConflictRules ==
    snap_current =>
        \A i \in 1..Len(status_output) :
            LET code == Take(status_output[i], 2)
                got == DictGet(file_status_cache, KeyOf(status_output[i]))
            IN  (WellFormed(status_output[i]) /\ ~ConflictCode(code)) =>
                    IF code[1] \in IndexChars /\ code[2] \in WorktreeChars
                    THEN got = "MODIFIED_STAGED"
                    ELSE IF code[1] \in IndexChars THEN got = "STAGED"
                    ELSE IF code[2] \in WorktreeChars THEN got = "MODIFIED"
                    ELSE code[2] = "?" => got = "NEW"

\* A renamed file deleted in the worktree, recorded as ModifiedStaged.
C19_Witness ==
    /\ snap_current
    /\ status_output = <<Line("R", "D", <<"a">>)>>
    /\ file_status_cache[KeyOf(status_output[1])] = "MODIFIED_STAGED"

\* C20: the snapshot holds no value but Conflicted, ModifiedStaged, Staged,
\* Modified and New, and the path of a code that decodes to Clean has no
\* entry.
C20_OnlyFiveStatuses ==
    /\ \A p \in DOMAIN file_status_cache :
           file_status_cache[p] \in
               {"CONFLICTED", "MODIFIED_STAGED", "STAGED", "MODIFIED", "NEW"}
    /\ snap_current =>
           \A i \in 1..Len(status_output) :
               (/\ WellFormed(status_output[i])
                /\ decode(Take(status_output[i], 2)) = "CLEAN")
               => KeyOf(status_output[i]) \notin DOMAIN file_status_cache

\* An ignored path ('!!') after a build: the snapshot has no entry for it.
C20_Witness ==
    /\ snap_current
    /\ status_output = <<Line("!", "!", <<"a">>)>>
    /\ file_status_cache = EmptyCache

\* ------------------------------------------- conflicts and folder rows

\* The snapshot without its Conflicted entries.
WithoutConflicted(snapshot) ==
    [p \in {q \in DOMAIN snapshot : snapshot[q] # "CONFLICTED"} |-> snapshot[p]]

\* C21: a folder whose entries beneath it are all Conflicted is shown Clean,
\* and the Conflicted entries of the snapshot change no folder's aggregate:
\* every folder row is the one the snapshot without them gives.
C21_ConflictedIsLeafOnly ==
    tree_selection # << >> =>
        \A r \in FolderRowPaths :
            LET under == {p \in DOMAIN file_status_cache : Beneath(p, r[2])}
            IN  /\ (/\ under # {}
                    /\ \A p \in under : file_status_cache[p] = "CONFLICTED")
                       => /\ file_tree[r[1]].tag = "clean_folder"
                          /\ file_tree[r[1]].icon = "plain"
                /\ file_tree[r[1]].tag
                       = FolderTag(get_folder_git_status(
                             WithoutConflicted(file_status_cache), r[2]))

\* ----------------------------------------------------- colours and edges

\* The branches the graph was built from, in the order of their enumeration.
EnumeratedNames ==
    [k \in 1..Cardinality(EnumeratedBranches) |->
        repo_branches[CHOOSE i \in EnumeratedBranches :
            Cardinality({j \in EnumeratedBranches : j <= i}) = k].name]

\* The fixed palette of six colours.
Palette ==
    <<"lightblue", "lightgreen", "lightcoral", "lightyellow", "lightpink",
      "lightgray">>

\* C22: the k-th branch seen (from 0) has the colour palette[k mod 6], two
\* branches share a colour exactly when their places are congruent modulo 6,
\* and every node has the colour of the first of its branch names, which has
\* a colour assigned.
C22_ColoursCycleThroughPalette ==
    graph_canvas.outcome = "graph" =>
        /\ Len(graph_canvas.branch_colors) = Len(EnumeratedNames)
        /\ \A k \in 1..Len(EnumeratedNames) :
               /\ graph_canvas.branch_colors[k].name = EnumeratedNames[k]
               /\ graph_canvas.branch_colors[k].color = Palette[((k - 1) % 6) + 1]
        /\ \A k, l \in 1..Len(graph_canvas.branch_colors) :
               (graph_canvas.branch_colors[k].color
                    = graph_canvas.branch_colors[l].color)
               <=> ((k - 1) % 6 = (l - 1) % 6)
        /\ \A i \in 1..Len(graph_canvas.nodes) :
               \E k \in 1..Len(graph_canvas.branch_colors) :
                   /\ graph_canvas.branch_colors[k].name
                          = graph_canvas.nodes[i].branches[1]
                   /\ graph_canvas.fills[i] = graph_canvas.branch_colors[k].color

\* A graph of seven branches, the seventh in the colour of the first, and a
\* node whose primary branch it is.
C22_Witness ==
    /\ graph_canvas.outcome = "graph"
    /\ Len(graph_canvas.branch_colors) = 7
    /\ graph_canvas.branch_colors[7].color = graph_canvas.branch_colors[1].color
    /\ \E i \in 1..Len(graph_canvas.nodes) :
           graph_canvas.nodes[i].branches[1] = graph_canvas.branch_colors[7].name

\* The place among the nodes of the graph of the commit of hash h.
NodeOf(h) ==
    CHOOSE i \in 1..Len(graph_canvas.nodes) : graph_canvas.nodes[i].hexsha = h

\* C23: n nodes are joined by n-1 connection lines, the i-th between the
\* i-th node and the next; and each branch has one line of dots, one dot for
\* each commit of the branch and no other, at the x of the commit's node, in
\* the order of the dates, newest first.
C23_ChainAndBranchLines ==
    graph_canvas.outcome = "graph" =>
        /\ Len(graph_canvas.chain) = Len(graph_canvas.nodes) - 1
        /\ \A i \in 1..Len(graph_canvas.chain) :
               /\ graph_canvas.chain[i].x1
                      = graph_canvas.nodes[i].rect_x + commit_width
               /\ graph_canvas.chain[i].x2 = graph_canvas.nodes[i + 1].rect_x
        /\ Len(graph_canvas.lines) = Len(EnumeratedNames)
        /\ \A b \in 1..Len(graph_canvas.lines) :
               LET line == graph_canvas.lines[b]
               IN  /\ line.name = EnumeratedNames[b]
                   /\ {line.dots[k].hexsha : k \in 1..Len(line.dots)}
                          = {h \in Hashes : line.name \in BranchNamesOf(h)}
                   /\ \A k, l \in 1..Len(line.dots) :
                          k # l => line.dots[k].hexsha # line.dots[l].hexsha
                   /\ \A k \in 1..Len(line.dots) :
                          line.dots[k].x
                              = graph_canvas.nodes[NodeOf(line.dots[k].hexsha)].x
                   /\ \A k, l \in 1..Len(line.dots) :
                          k < l =>
                              repo_commits[line.dots[k].hexsha].time
                                  >= repo_commits[line.dots[l].hexsha].time

\* A graph of three nodes and two branches, one of them with all three
\* commits.
C23_Witness ==
    /\ graph_canvas.outcome = "graph"
    /\ Len(graph_canvas.chain) = 2
    /\ Len(graph_canvas.lines) = 2
    /\ \E b \in 1..2 : Len(graph_canvas.lines[b].dots) = 3

\* ------------------------------------------------------------ the HEAD mark

\* The hash of the commit HEAD resolves to, "none" if it resolves to none.
HeadHash ==
    LET at == {i \in 1..Len(repo_branches) : repo_branches[i].name = repo_head}
    IN  IF at = {} THEN "none" ELSE repo_branches[CHOOSE i \in at : TRUE].tip

\* A canvas without its HEAD marks: what the marking must leave alone.
Unmarked(canvas) ==
    [outcome |-> canvas.outcome, nodes |-> canvas.nodes,
     failed |-> canvas.failed, branch_colors |-> canvas.branch_colors,
     fills |-> canvas.fills, chain |-> canvas.chain, lines |-> canvas.lines]

\* The places of the canvas that carry the HEAD mark.
MarkedGraph == {i \in 1..Len(graph_canvas.heads) : graph_canvas.heads[i]}
MarkedTimeline ==
    {i \in 1..Len(timeline_canvas.nodes) : timeline_canvas.nodes[i].is_head}

Among(seq, S) ==
    LET RECURSIVE From(_)
        From(i) == IF i > Len(seq) THEN << >>
                   ELSE (IF seq[i] \in S THEN <<seq[i]>> ELSE << >>)
                        \o From(i + 1)
    IN  From(1)

\* The branches of the timeline entry of commit h, sorted: those enumerated
\* for the timeline whose history holds h.  The names b1 .. b9 are in
\* lexicographic order.
SortedBranchesOf(h) ==
    Among(ManyNames,
          {repo_branches[i].name : i \in
              {j \in 1..Len(repo_branches) :
                  /\ repo_branches[j].name \notin timeline_canvas.failed
                  /\ \E k \in 1..Len(Ancestry(repo_commits, repo_branches[j].tip)) :
                         Ancestry(repo_commits, repo_branches[j].tip)[k] = h}})

\* The tags of the timeline entry of commit h, sorted.
SortedTagsOf(h) ==
    Among(TagNames,
          {repo_tags[i].name : i \in
              {j \in 1..Len(repo_tags) : repo_tags[j].commit = h}})

C26_TimerIsRecurring ==
    /\ [][TimerFires => ClearCount(after_queue') = 1]_vars
    /\ [](highlighted_files # {} => ClearCount(after_queue) = 1)

\* ------------------------------------------------- the toolbar operations

\* The callbacks cb waiting in the queue with argument arg.
Waiting(queue, cb, arg) ==
    {i \in 1..Len(queue) : queue[i].cb = cb /\ queue[i].arg = arg}

\* The worker of the toolbar Refresh ends.
RefreshWorkerEnds ==
    \E t \in ThreadIds :
        /\ threads[t].kind = "erefresh"
        /\ threads'[t] = IdleThread

\* C27: the worker of the toolbar Refresh leaves refresh_all_data and the
\* success report for the primary thread to run, and no error report; the
\* operation never ends with the label of a failed Refresh.
C27_RefreshReportsSuccess ==
    /\ [][RefreshWorkerEnds =>
            /\ Waiting(after_queue', "refresh_all_data", "") # {}
            /\ Waiting(after_queue', "complete_operation", "Refresh") # {}
            /\ Waiting(after_queue', "handle_operation_error", "Refresh") = {}]_vars
    /\ [](status_label # FailureLabel("Refresh"))

\* The workers started from a button that are running, and its reports
\* waiting to run.
WorkersOf(button) ==
    {t \in ThreadIds : threads[t].kind = WorkerOf(button)}

\* C28: a toolbar button in the disabled operating state is in the end
\* enabled again under its own label, whether its operation succeeds, fails
\* or is cancelled at the prompt; and no button has two workers at a time.
C28_ButtonIsRestored ==
    /\ \A button \in ButtonNames :
           (buttons[button].state = "DISABLED")
               ~> (buttons[button] = [text |-> button, state |-> "NORMAL"])
    /\ [](\A button \in ButtonNames : Cardinality(WorkersOf(button)) <= 1)

\* The paths listed in the staged-changes list that populate_changes builds
\* from the status output.
StagedListed ==
    LET staging == populate_changes(status_output, FALSE).staging
    IN  {staging[i].path : i \in 1..Len(staging)}

\* C29: the staged-changes list and the snapshot agree on every path of the
\* status output they are both built from: the path is listed as staged
\* exactly when its snapshot status is STAGED or MODIFIED_STAGED.
C29_StagedListAgreesWithCache ==
    snap_current =>
        \A i \in 1..Len(status_output) :
            Len(status_output[i]) > 3 =>
                LET file_path == Drop(status_output[i], 3)
                IN  file_path \in StagedListed
                        <=> DictGet(file_status_cache,
                                    os_path_join(repo_path, file_path))
                                \in {"STAGED", "MODIFIED_STAGED"}

\* The tags populate_file_list_enhanced gives the rows of files.
FileTags ==
    {"new_file", "modified_file", "staged_file", "modified_staged_file",
     "deleted_file", "renamed_file", "copied_file", "conflicted_file",
     "clean_file"}

\* C30: when clear_file_highlights runs with a folder selected, every file
\* row whose path is Clean in the snapshot carries the clean tag afterwards,
\* whichever tag it carried, and every file row whose path is not Clean
\* keeps its tag.
C30_CleanRowsLoseTheirTag ==
    [][(TimerFires /\ tree_selection # << >>) =>
        /\ Len(file_tree') = Len(file_tree)
        /\ \A i \in 1..Len(file_tree) :
               file_tree[i].tag \in FileTags =>
                   IF DictGet(file_status_cache,
                              os_path_join(tree_selection, file_tree[i].name))
                          = "CLEAN"
                   THEN file_tree'[i].tag = "clean_file"
                   ELSE file_tree'[i].tag = file_tree[i].tag]_vars

====
